---------------------------- MODULE Spec2Model ----------------------------
(***************************************************************************)
(* Order service of GrigoriyPoshnagovInstitute/OrderService.               *)
(*                                                                         *)
(* The service (pkg/domain/service/order.go) is stateless glue between a   *)
(* repository and an event dispatcher.  The repository modelled here is    *)
(* the in-memory one of pkg/domain/tests/orderservice_test.go: a map from  *)
(* order id to *model.Order.  It keeps POINTERS, so the order Find returns *)
(* is the stored object itself and a write through it (order.Status = ..)  *)
(* is a write to the stored record.  Exactly one object is ever created    *)
(* per order id (by CreateOrder, under a fresh id), so the object is       *)
(* identified by its id and `store[id]` is the state of that object.       *)
(*                                                                         *)
(* The interfaces let NextID, Store, Delete and Dispatch return an error;  *)
(* every handler takes the name of the collaborator call that fails in     *)
(* this invocation (`fail`), "-" when all of them succeed.              *)
(***************************************************************************)
EXTENDS Integers, Sequences, FiniteSets, TLC

VARIABLES
    store,      \* mockOrderRepository.store: order id -> order object
    events,     \* mockEventDispatcher.events: the dispatched events, in order
    nextId,     \* number of identifiers NextID has handed out (uuid.NewV7)
    now,        \* the clock read by time.Now()
    last,       \* the last service call: its number, operation, order id, result,
                \* collaborator calls and the number of events it dispatched
    procs,      \* concurrent callers: where each is in its handler, and its locals
    oks,        \* history: the service calls that returned a nil error, in order
    written,    \* history: per order, the item ids appended by AddItem (order.go:121)
    erased      \* history: per order, the item ids removed by DeleteItem (order.go:161)

vars == <<store, events, nextId, now, last, oks, written, erased, procs>>

---------------------------------------------------------------------------
(* Bounds of the model *)

MaxIds == 3

MaxOps == 4

MaxTime == 2

---------------------------------------------------------------------------
(* Values *)

\* uuid.Nil
Nil == 0

\* a nil *time.Time (Order.DeletedAt of a live order)
NoTime == 0

\* identifiers NextID can hand out
IDs == 1 .. MaxIds

\* identifiers a caller can pass as orderID or itemID: every identifier NextID can
\* hand out, and one identifier no NextID call ever returns
ForeignID == 99

ArgIDs == IDs \cup {ForeignID}

CustomerIDs == {101, 102}

\* the (productID, price) pairs a caller passes to AddItem
Catalog == {[productID |-> 201, price |-> 100], [productID |-> 202, price |-> 150]}

\* model.OrderStatus: Open, Paid and Cancelled are used by the sources; the
\* enumeration itself is declared outside the given files
Open == "Open"

Paid == "Paid"

Shipped == "Shipped"

Cancelled == "Cancelled"

Statuses == {Open, Paid, Shipped, Cancelled}

\* errors
OK == "nil"

ErrOrderNotFound == "ErrOrderNotFound"

ErrInvalidOrderStatus == "ErrInvalidOrderStatus"

ErrItemNotFound == "ErrItemNotFound"

ErrRepository == "RepositoryError"

ErrDispatch == "DispatchError"

\* the collaborator call that fails in one invocation of a handler ("-": no
\* call fails), among the calls the handler makes that can return an error
CreateOrderFails == {"-", "NextID", "Store", "Dispatch"}

DeleteOrderFails == {"-", "Delete", "Dispatch"}

SetStatusFails == {"-", "Store", "Dispatch"}

AddItemFails == {"-", "NextID", "Store", "Dispatch"}

DeleteItemFails == {"-", "Store", "Dispatch"}

---------------------------------------------------------------------------
(* Domain events: pkg/domain/model/event.go *)

OrderCreated(orderID, customerID) ==
    [Type |-> "OrderCreated", OrderID |-> orderID, CustomerID |-> customerID]

\* the two item lists of the event exchanged
OrderItemsChanged_Swapped(orderID, addedItems, removedItems) ==
    [Type |-> "OrderItemsChanged", OrderID |-> orderID,
     AddedItems |-> removedItems, RemovedItems |-> addedItems]

OrderItemsChanged(orderID, addedItems, removedItems) ==
    [Type |-> "OrderItemsChanged", OrderID |-> orderID,
     AddedItems |-> addedItems, RemovedItems |-> removedItems]

OrderStatusChanged(orderID, newStatus) ==
    [Type |-> "OrderStatusChanged", OrderID |-> orderID, NewStatus |-> newStatus]

\* a copied Type method that kept the name of the event it was copied from
OrderDeleted_WrongType(orderID) ==
    [Type |-> "OrderStatusChanged", OrderID |-> orderID]

OrderDeleted(orderID) ==
    [Type |-> "OrderDeleted", OrderID |-> orderID]

---------------------------------------------------------------------------
(* Collaborators *)

\* one collaborator call of a handler and the error it returned
Called(name, err) == [call |-> name, err |-> err]

\* mockOrderRepository.NextID: uuid.NewV7 returns a fresh non-nil id, or an error
RepoNextID(n, fail) ==
    IF fail = "NextID"
    THEN [err |-> ErrRepository, id |-> Nil, next |-> n]
    ELSE [err |-> OK, id |-> n + 1, next |-> n + 1]

\* mockOrderRepository.Store: m.store[order.ID] = order
RepoStore(st, order, fail) ==
    IF fail = "Store"
    THEN [err |-> ErrRepository, store |-> st]
    ELSE [err |-> OK,
          store |-> [id \in (DOMAIN st) \cup {order.ID} |->
                        IF id = order.ID THEN order ELSE st[id]]]

\* a lookup that forgets the DeletedAt check
Found_IgnoresDeletedAt(st, id) == id \in DOMAIN st

\* mockOrderRepository.Find: absent and soft-deleted orders are not found
Found(st, id) == id \in DOMAIN st /\ st[id].DeletedAt = NoTime

RepoFind(st, id) == IF Found(st, id) THEN OK ELSE ErrOrderNotFound

\* Delete without the check under its lock: a deleted order is deleted again
RepoDelete_NoRecheck(st, id, t, fail) ==
    IF fail = "Delete"
    THEN [err |-> ErrRepository, store |-> st]
    ELSE IF id \notin DOMAIN st
    THEN [err |-> ErrOrderNotFound, store |-> st]
    ELSE [err |-> OK, store |-> [st EXCEPT ![id].DeletedAt = t]]

\* a soft delete that refreshes UpdatedAt as well
RepoDelete_TouchesUpdatedAt(st, id, t, fail) ==
    IF fail = "Delete"
    THEN [err |-> ErrRepository, store |-> st]
    ELSE IF ~Found(st, id)
    THEN [err |-> ErrOrderNotFound, store |-> st]
    ELSE [err |-> OK, store |-> [st EXCEPT ![id].DeletedAt = t, ![id].UpdatedAt = t]]

\* mockOrderRepository.Delete: sets DeletedAt on the stored object
RepoDelete(st, id, t, fail) ==
    IF fail = "Delete"
    THEN [err |-> ErrRepository, store |-> st]
    ELSE IF ~Found(st, id)
    THEN [err |-> ErrOrderNotFound, store |-> st]
    ELSE [err |-> OK, store |-> [st EXCEPT ![id].DeletedAt = t]]

\* mockEventDispatcher.Dispatch: appends the event; a failing dispatcher delivers nothing
Dispatch(evs, event, fail) ==
    IF fail = "Dispatch"
    THEN [err |-> ErrDispatch, events |-> evs]
    ELSE [err |-> OK, events |-> Append(evs, event)]

---------------------------------------------------------------------------
(* The handlers, as functions of the state they read: each yields the new  *)
(* store, events and id counter, the returned value and error, and the     *)
(* collaborator calls made, in order.                                      *)

Outcome(st, evs, n, ret, err, calls) ==
    [store |-> st, events |-> evs, nextId |-> n, ret |-> ret, err |-> err, calls |-> calls]

\* the guard left out
StatusLocked_NoGuard(order) == order.Status \notin Statuses

\* the guard of a stricter state machine: only an Open order changes status
StatusLocked_UnlessOpen(order) == order.Status # Open

\* order.Status == model.Cancelled: the guard of SetStatus
StatusLocked(order) == order.Status = Cancelled

\* the guard of SetStatus copied: only a Cancelled order is closed to item changes
ItemsEditable_UnlessCancelled(order) == order.Status # Cancelled

\* order.Status != model.Open fails AddItem and DeleteItem
ItemsEditable(order) == order.Status = Open

\* UpdatedAt left at its zero value
NewOrder_NoUpdatedAt(orderID, customerID, currentTime) ==
    [ID |-> orderID, CustomerID |-> customerID, Status |-> Open, Items |-> <<>>,
     CreatedAt |-> currentTime, UpdatedAt |-> NoTime, DeletedAt |-> NoTime]

\* the order CreateOrder stores (Items and DeletedAt keep their zero values)
NewOrder(orderID, customerID, currentTime) ==
    [ID |-> orderID, CustomerID |-> customerID, Status |-> Open, Items |-> <<>>,
     CreatedAt |-> currentTime, UpdatedAt |-> currentTime, DeletedAt |-> NoTime]

\* the item AddItem appends
NewItem(itemID, productID, price) ==
    [ID |-> itemID, ProductID |-> productID, Price |-> price]

\* the new item put in front
AppendItem_InFront(items, item) == <<item>> \o items

\* append(order.Items, item)
AppendItem(items, item) == Append(items, item)

\* the status written and UpdatedAt left as it was
WithStatus_KeepsUpdatedAt(order, status, t) == [order EXCEPT !.Status = status]

\* order.Status = status; order.UpdatedAt = time.Now().UTC()
WithStatus(order, status, t) == [order EXCEPT !.Status = status, !.UpdatedAt = t]

\* the time of the change written to CreatedAt as well
WithItems_TouchesCreatedAt(order, items, t) ==
    [order EXCEPT !.Items = items, !.UpdatedAt = t, !.CreatedAt = t]

\* order.Items = ...; order.UpdatedAt = time.Now().UTC()
WithItems(order, items, t) == [order EXCEPT !.Items = items, !.UpdatedAt = t]

\* whether the handler made the collaborator call `name`, and whether it succeeded
Reached(out, name) == \E i \in 1 .. Len(out.calls) : out.calls[i].call = name

Did(out, name) ==
    \E i \in 1 .. Len(out.calls) : out.calls[i].call = name /\ out.calls[i].err = OK

\* orderService.CreateOrder
CreateOrderRun(customerID, fail) ==
    LET nid == RepoNextID(nextId, fail)
        c1  == <<Called("NextID", nid.err)>>
    IN  IF nid.err # OK THEN Outcome(store, events, nid.next, Nil, nid.err, c1)
        ELSE
        LET st == RepoStore(store, NewOrder(nid.id, customerID, now), fail)
            c2 == Append(c1, Called("Store", st.err))
        IN  IF st.err # OK THEN Outcome(st.store, events, nid.next, Nil, st.err, c2)
            ELSE
            LET d == Dispatch(events, OrderCreated(nid.id, customerID), fail)
            IN  Outcome(st.store, d.events, nid.next, nid.id, d.err,
                        Append(c2, Called("Dispatch", d.err)))

\* DeleteOrder dispatching without looking at the error of Delete
DeleteOrderRun_IgnoresDeleteError(orderID, fail) ==
    LET ferr == RepoFind(store, orderID)
        c1   == <<Called("Find", ferr)>>
    IN  IF ferr # OK THEN Outcome(store, events, nextId, Nil, ferr, c1)
        ELSE
        LET del == RepoDelete(store, orderID, now, fail)
            c2  == Append(c1, Called("Delete", del.err))
            d   == Dispatch(events, OrderDeleted(orderID), fail)
        IN  Outcome(del.store, d.events, nextId, Nil, d.err,
                    Append(c2, Called("Dispatch", d.err)))

\* orderService.DeleteOrder
DeleteOrderRun(orderID, fail) ==
    LET ferr == RepoFind(store, orderID)
        c1   == <<Called("Find", ferr)>>
    IN  IF ferr # OK THEN Outcome(store, events, nextId, Nil, ferr, c1)
        ELSE
        LET del == RepoDelete(store, orderID, now, fail)
            c2  == Append(c1, Called("Delete", del.err))
        IN  IF del.err # OK THEN Outcome(del.store, events, nextId, Nil, del.err, c2)
            ELSE
            LET d == Dispatch(events, OrderDeleted(orderID), fail)
            IN  Outcome(del.store, d.events, nextId, Nil, d.err,
                        Append(c2, Called("Dispatch", d.err)))

\* SetStatus undoing its write when the dispatcher fails
SetStatusRun_RollsBack(orderID, status, fail) ==
    LET ferr == RepoFind(store, orderID)
        c1   == <<Called("Find", ferr)>>
    IN  IF ferr # OK THEN Outcome(store, events, nextId, Nil, ferr, c1)
        ELSE IF StatusLocked(store[orderID])
        THEN Outcome(store, events, nextId, Nil, ErrInvalidOrderStatus, c1)
        ELSE
        LET mutated == [store EXCEPT ![orderID] = WithStatus(@, status, now)]
            st == RepoStore(mutated, mutated[orderID], fail)
            c2 == Append(c1, Called("Store", st.err))
        IN  IF st.err # OK THEN Outcome(st.store, events, nextId, Nil, st.err, c2)
            ELSE
            LET d == Dispatch(events, OrderStatusChanged(orderID, status), fail)
            IN  Outcome(IF d.err # OK THEN store ELSE st.store, d.events, nextId, Nil,
                        d.err, Append(c2, Called("Dispatch", d.err)))

\* orderService.SetStatus
SetStatusRun(orderID, status, fail) ==
    LET ferr == RepoFind(store, orderID)
        c1   == <<Called("Find", ferr)>>
    IN  IF ferr # OK THEN Outcome(store, events, nextId, Nil, ferr, c1)
        ELSE IF StatusLocked(store[orderID])
        THEN Outcome(store, events, nextId, Nil, ErrInvalidOrderStatus, c1)
        ELSE
        \* order.Status = status; order.UpdatedAt = now: writes to the stored object
        LET mutated == [store EXCEPT ![orderID] = WithStatus(@, status, now)]
            st == RepoStore(mutated, mutated[orderID], fail)
            c2 == Append(c1, Called("Store", st.err))
        IN  IF st.err # OK THEN Outcome(st.store, events, nextId, Nil, st.err, c2)
            ELSE
            LET d == Dispatch(events, OrderStatusChanged(orderID, status), fail)
            IN  Outcome(st.store, d.events, nextId, Nil, d.err,
                        Append(c2, Called("Dispatch", d.err)))

\* orderService.AddItem
AddItemRun(orderID, productID, price, fail) ==
    LET ferr == RepoFind(store, orderID)
        c1   == <<Called("Find", ferr)>>
    IN  IF ferr # OK THEN Outcome(store, events, nextId, Nil, ferr, c1)
        ELSE IF ~ItemsEditable(store[orderID])
        THEN Outcome(store, events, nextId, Nil, ErrInvalidOrderStatus, c1)
        ELSE
        LET nid == RepoNextID(nextId, fail)
            c2  == Append(c1, Called("NextID", nid.err))
        IN  IF nid.err # OK THEN Outcome(store, events, nid.next, Nil, nid.err, c2)
            ELSE
            LET item == NewItem(nid.id, productID, price)
                mutated == [store EXCEPT
                               ![orderID] = WithItems(@, AppendItem(@.Items, item), now)]
                st == RepoStore(mutated, mutated[orderID], fail)
                c3 == Append(c2, Called("Store", st.err))
            IN  IF st.err # OK THEN Outcome(st.store, events, nid.next, Nil, st.err, c3)
                ELSE
                LET d == Dispatch(events, OrderItemsChanged(orderID, <<nid.id>>, <<>>), fail)
                IN  Outcome(st.store, d.events, nid.next, nid.id, d.err,
                            Append(c3, Called("Dispatch", d.err)))

\* itemIndex initialised to 0 instead of -1
ItemIndex_ZeroInit(items, itemID) ==
    IF \E i \in 1 .. Len(items) : items[i].ID = itemID
    THEN (CHOOSE i \in 1 .. Len(items) :
             /\ items[i].ID = itemID
             /\ \A j \in 1 .. (i - 1) : items[j].ID # itemID) - 1
    ELSE 0

\* the loop of DeleteItem: index of the first item with the id, -1 when there is none
\* (indices count from 0 as in the source)
ItemIndex(items, itemID) ==
    IF \E i \in 1 .. Len(items) : items[i].ID = itemID
    THEN (CHOOSE i \in 1 .. Len(items) :
             /\ items[i].ID = itemID
             /\ \A j \in 1 .. (i - 1) : items[j].ID # itemID) - 1
    ELSE -1

\* items[:itemIndex] alone: the items after the removed one are lost
RemoveAt_Truncates(items, itemIndex) == SubSeq(items, 1, itemIndex)

\* append(items[:itemIndex], items[itemIndex+1:]...)
RemoveAt(items, itemIndex) ==
    SubSeq(items, 1, itemIndex) \o SubSeq(items, itemIndex + 2, Len(items))

\* orderService.DeleteItem
DeleteItemRun(orderID, itemID, fail) ==
    LET ferr == RepoFind(store, orderID)
        c1   == <<Called("Find", ferr)>>
    IN  IF ferr # OK THEN Outcome(store, events, nextId, Nil, ferr, c1)
        ELSE IF ~ItemsEditable(store[orderID])
        THEN Outcome(store, events, nextId, Nil, ErrInvalidOrderStatus, c1)
        ELSE
        LET itemIndex == ItemIndex(store[orderID].Items, itemID)
        IN  IF itemIndex = -1
            THEN Outcome(store, events, nextId, Nil, ErrItemNotFound, c1)
            ELSE
            LET mutated == [store EXCEPT
                               ![orderID] = WithItems(@, RemoveAt(@.Items, itemIndex), now)]
                st == RepoStore(mutated, mutated[orderID], fail)
                c2 == Append(c1, Called("Store", st.err))
            IN  IF st.err # OK THEN Outcome(st.store, events, nextId, Nil, st.err, c2)
                ELSE
                LET d == Dispatch(events, OrderItemsChanged(orderID, <<>>, <<itemID>>), fail)
                IN  Outcome(st.store, d.events, nextId, Nil, d.err,
                            Append(c2, Called("Dispatch", d.err)))

---------------------------------------------------------------------------
(* Actions: one service call each *)

\* the goroutines that call the service at the same time
Procs == {"A", "B"}

\* a caller that has not called yet
Idle ==
    [pc |-> "idle", call |-> [op |-> ""], newID |-> Nil, items |-> <<>>,
     itemIndex |-> -1, ret |-> Nil, err |-> OK, exit |-> ""]

NoCall ==
    [n |-> 0, op |-> "", orderID |-> Nil, ret |-> Nil, err |-> OK, calls |-> <<>>,
     dispatched |-> 0]

\* the result of a handler becomes the state; the histories record the call
Complete(op, orderID, out) ==
    /\ last.n < MaxOps
    /\ out.nextId <= MaxIds
    /\ store' = out.store
    /\ events' = out.events
    /\ nextId' = out.nextId
    /\ last' = [n |-> last.n + 1, op |-> op, orderID |-> orderID,
                ret |-> out.ret, err |-> out.err, calls |-> out.calls,
                dispatched |-> Len(out.events) - Len(events)]
    /\ oks' = IF out.err = OK
              THEN Append(oks, [op |-> op,
                                orderID |-> IF op = "CreateOrder"
                                            THEN out.ret ELSE orderID])
              ELSE oks
    /\ UNCHANGED <<now, procs>>

CreateOrder(customerID, fail) ==
    /\ Complete("CreateOrder", Nil, CreateOrderRun(customerID, fail))
    /\ UNCHANGED <<written, erased>>

DeleteOrder(orderID, fail) ==
    /\ Complete("DeleteOrder", orderID, DeleteOrderRun(orderID, fail))
    /\ UNCHANGED <<written, erased>>

SetStatus(orderID, status, fail) ==
    /\ Complete("SetStatus", orderID, SetStatusRun(orderID, status, fail))
    /\ UNCHANGED <<written, erased>>

\* (the id NextID returned is the value of the counter after the call)
AddItem(orderID, productID, price, fail) ==
    LET out == AddItemRun(orderID, productID, price, fail)
    IN  /\ Complete("AddItem", orderID, out)
        /\ written' = IF Did(out, "NextID")
                      THEN [written EXCEPT ![orderID] = Append(@, out.nextId)]
                      ELSE written
        /\ UNCHANGED erased

DeleteItem(orderID, itemID, fail) ==
    LET out == DeleteItemRun(orderID, itemID, fail)
    IN  /\ Complete("DeleteItem", orderID, out)
        /\ erased' = IF Reached(out, "Store")
                     THEN [erased EXCEPT ![orderID] = @ \cup {itemID}]
                     ELSE erased
        /\ UNCHANGED written

\* time passes between calls
Tick ==
    /\ now < MaxTime
    /\ now' = now + 1
    /\ UNCHANGED <<store, events, nextId, last, oks, written, erased, procs>>

Init ==
    /\ store = <<>>
    /\ events = <<>>
    /\ nextId = 0
    /\ now = 1
    /\ last = NoCall
    /\ oks = <<>>
    /\ written = [id \in IDs |-> <<>>]
    /\ erased = [id \in IDs |-> {}]
    /\ procs = [p \in Procs |-> Idle]

Next ==
    \/ \E c \in CustomerIDs, f \in CreateOrderFails : CreateOrder(c, f)
    \/ \E id \in ArgIDs, f \in DeleteOrderFails : DeleteOrder(id, f)
    \/ \E id \in ArgIDs, s \in Statuses, f \in SetStatusFails : SetStatus(id, s, f)
    \/ \E id \in ArgIDs, c \in Catalog, f \in AddItemFails :
           AddItem(id, c.productID, c.price, f)
    \/ \E id \in ArgIDs, it \in ArgIDs, f \in DeleteItemFails : DeleteItem(id, it, f)
    \/ Tick

Spec == Init /\ [][Next]_vars

\* calls made one at a time with collaborators that never fail
NextNoFailure ==
    \/ \E c \in CustomerIDs : CreateOrder(c, "-")
    \/ \E id \in ArgIDs : DeleteOrder(id, "-")
    \/ \E id \in ArgIDs, s \in Statuses : SetStatus(id, s, "-")
    \/ \E id \in ArgIDs, c \in Catalog : AddItem(id, c.productID, c.price, "-")
    \/ \E id \in ArgIDs, it \in ArgIDs : DeleteItem(id, it, "-")
    \/ Tick

SpecNoFailure == Init /\ [][NextNoFailure]_vars

---------------------------------------------------------------------------
(* Every call a client can make in the current state, with its outcome *)

\* a call: the operation, its arguments and the collaborator call that fails
Call(op, orderID, customerID, status, productID, price, itemID, fail) ==
    [op |-> op, orderID |-> orderID, customerID |-> customerID, status |-> status,
     productID |-> productID, price |-> price, itemID |-> itemID, fail |-> fail]

CallsOn(id) ==
    {Call("DeleteOrder", id, Nil, "", Nil, 0, Nil, f) : f \in DeleteOrderFails}
    \cup {Call("SetStatus", id, Nil, s, Nil, 0, Nil, f) :
             s \in Statuses, f \in SetStatusFails}
    \cup {Call("AddItem", id, Nil, "", c.productID, c.price, Nil, f) :
             c \in Catalog, f \in AddItemFails}
    \cup {Call("DeleteItem", id, Nil, "", Nil, 0, it, f) :
             it \in ArgIDs, f \in DeleteItemFails}

AllCalls ==
    {Call("CreateOrder", Nil, c, "", Nil, 0, Nil, f) :
        c \in CustomerIDs, f \in CreateOrderFails}
    \cup UNION {CallsOn(id) : id \in ArgIDs}

\* the outcome of a call in the current state
Run(c) ==
    CASE c.op = "CreateOrder" -> CreateOrderRun(c.customerID, c.fail)
      [] c.op = "DeleteOrder" -> DeleteOrderRun(c.orderID, c.fail)
      [] c.op = "SetStatus"   -> SetStatusRun(c.orderID, c.status, c.fail)
      [] c.op = "AddItem"     -> AddItemRun(c.orderID, c.productID, c.price, c.fail)
      [] OTHER                -> DeleteItemRun(c.orderID, c.itemID, c.fail)

\* the ids of a sequence of items, in order
ItemIDs(items) == [i \in 1 .. Len(items) |-> items[i].ID]

\* the event type each operation dispatches
EventOf(op) ==
    CASE op = "CreateOrder" -> "OrderCreated"
      [] op = "DeleteOrder" -> "OrderDeleted"
      [] op = "SetStatus"   -> "OrderStatusChanged"
      [] OTHER              -> "OrderItemsChanged"

---------------------------------------------------------------------------
(* Two callers at once. The service holds no lock of its own: between two    *)
(* repository or dispatcher calls of one handler the other caller may run.   *)
(* Each method of the repository and of the dispatcher takes its mutex and   *)
(* is one step. The handlers read and write the fields of the order Find     *)
(* returned outside any lock; these unsynchronised accesses are steps of     *)
(* their own, a read and the write that depends on it being two steps.       *)
(* Collaborators do not fail here.                                           *)

\* the calls a caller may make
ConcCalls == {c \in AllCalls : c.fail = "-"}

\* the runtime panic of a slice expression whose bounds are out of range
ErrPanic == "panic: slice bounds out of range"

\* the caller p moves on to the step pc
Goto(p, pc) == procs' = [procs EXCEPT ![p].pc = pc]

\* the handler of caller p returns
Return(p, ret, err) ==
    procs' = [procs EXCEPT ![p].pc = "done", ![p].ret = ret, ![p].err = err,
                           ![p].exit = procs[p].pc]

\* a caller enters a handler: CreateOrder starts with NextID, the others with Find
Begin(p, c) ==
    /\ procs[p].pc = "idle"
    /\ procs' = [procs EXCEPT ![p].call = c,
                              ![p].pc = IF c.op = "CreateOrder" THEN "NextID" ELSE "Find"]
    /\ UNCHANGED <<store, events, nextId, now, last, oks, written, erased>>

\* s.repo.Find(id)
FindStep(p) ==
    LET c    == procs[p].call
        ferr == RepoFind(store, c.orderID)
    IN  /\ procs[p].pc = "Find"
        /\ IF ferr # OK THEN Return(p, Nil, ferr)
           ELSE Goto(p, IF c.op = "DeleteOrder" THEN "Delete" ELSE "Check")
        /\ UNCHANGED <<store, events, nextId, now, last, oks, written, erased>>

\* the status guard, read from the order Find returned
CheckStep(p) ==
    LET c     == procs[p].call
        order == store[c.orderID]
    IN  /\ procs[p].pc = "Check"
        /\ IF c.op = "SetStatus"
           THEN IF StatusLocked(order)
                THEN Return(p, Nil, ErrInvalidOrderStatus)
                ELSE Goto(p, "Write")
           ELSE IF ~ItemsEditable(order)
                THEN Return(p, Nil, ErrInvalidOrderStatus)
                ELSE Goto(p, IF c.op = "AddItem" THEN "NextID" ELSE "Scan")
        /\ UNCHANGED <<store, events, nextId, now, last, oks, written, erased>>

\* the loop of DeleteItem over order.Items
ScanStep(p) ==
    LET c         == procs[p].call
        itemIndex == ItemIndex(store[c.orderID].Items, c.itemID)
    IN  /\ procs[p].pc = "Scan"
        /\ IF itemIndex = -1
           THEN Return(p, Nil, ErrItemNotFound)
           ELSE procs' = [procs EXCEPT ![p].pc = "Read", ![p].itemIndex = itemIndex]
        /\ UNCHANGED <<store, events, nextId, now, last, oks, written, erased>>

\* s.repo.NextID()
NextIDStep(p) ==
    LET nid == RepoNextID(nextId, "-")
    IN  /\ procs[p].pc = "NextID"
        /\ nid.next <= MaxIds
        /\ nextId' = nid.next
        /\ procs' = [procs EXCEPT ![p].newID = nid.id,
                                  ![p].pc = IF procs[p].call.op = "CreateOrder"
                                            THEN "Store" ELSE "Read"]
        /\ UNCHANGED <<store, events, now, last, oks, written, erased>>

\* order.Items read, as the operand of append
ReadStep(p) ==
    /\ procs[p].pc = "Read"
    /\ procs' = [procs EXCEPT ![p].items = store[procs[p].call.orderID].Items,
                              ![p].pc = "Write"]
    /\ UNCHANGED <<store, events, nextId, now, last, oks, written, erased>>

\* the assignments to the fields of the order Find returned, which is the stored
\* object; items[itemIndex+1:] panics when the list read is too short
WriteStep(p) ==
    LET c  == procs[p].call
        id == c.orderID
    IN  /\ procs[p].pc = "Write"
        /\ IF c.op = "DeleteItem" /\ procs[p].itemIndex + 1 > Len(procs[p].items)
           THEN /\ Return(p, Nil, ErrPanic)
                /\ UNCHANGED store
           ELSE /\ Goto(p, "Store")
                /\ store' =
                      [store EXCEPT ![id] =
                          CASE c.op = "SetStatus" -> WithStatus(@, c.status, now)
                            [] c.op = "AddItem" ->
                                  WithItems(@, AppendItem(procs[p].items,
                                               NewItem(procs[p].newID, c.productID,
                                                       c.price)), now)
                            [] OTHER ->
                                  WithItems(@, RemoveAt(procs[p].items,
                                                        procs[p].itemIndex), now)]
        /\ UNCHANGED <<events, nextId, now, last, oks, written, erased>>

\* s.repo.Store(order): the new order of CreateOrder, else the stored object itself
StoreStep(p) ==
    LET c  == procs[p].call
        st == RepoStore(store,
                        IF c.op = "CreateOrder"
                        THEN NewOrder(procs[p].newID, c.customerID, now)
                        ELSE store[c.orderID],
                        "-")
    IN  /\ procs[p].pc = "Store"
        /\ store' = st.store
        /\ Goto(p, "Dispatch")
        /\ UNCHANGED <<events, nextId, now, last, oks, written, erased>>

\* s.repo.Delete(id)
DeleteStep(p) ==
    LET del == RepoDelete(store, procs[p].call.orderID, now, "-")
    IN  /\ procs[p].pc = "Delete"
        /\ store' = del.store
        /\ IF del.err # OK THEN Return(p, Nil, del.err) ELSE Goto(p, "Dispatch")
        /\ UNCHANGED <<events, nextId, now, last, oks, written, erased>>

\* the event a handler dispatches
EventFor(c, newID) ==
    CASE c.op = "CreateOrder" -> OrderCreated(newID, c.customerID)
      [] c.op = "DeleteOrder" -> OrderDeleted(c.orderID)
      [] c.op = "SetStatus"   -> OrderStatusChanged(c.orderID, c.status)
      [] c.op = "AddItem"     -> OrderItemsChanged(c.orderID, <<newID>>, <<>>)
      [] OTHER                -> OrderItemsChanged(c.orderID, <<>>, <<c.itemID>>)

\* s.dispatcher.Dispatch(event), the last statement of every handler
DispatchStep(p) ==
    LET d == Dispatch(events, EventFor(procs[p].call, procs[p].newID), "-")
    IN  /\ procs[p].pc = "Dispatch"
        /\ events' = d.events
        /\ Return(p, procs[p].newID, d.err)
        /\ UNCHANGED <<store, nextId, now, last, oks, written, erased>>

\* the state after CreateOrder for the first customer
SeedCreated ==
    LET customerID == CHOOSE c \in CustomerIDs : \A d \in CustomerIDs : c <= d
    IN  /\ store = (1 :> NewOrder(1, customerID, 1))
        /\ events = <<OrderCreated(1, customerID)>>
        /\ nextId = 1
        /\ last = [NoCall EXCEPT !.n = 1, !.op = "CreateOrder", !.ret = 1,
                                 !.calls = <<Called("NextID", OK), Called("Store", OK),
                                             Called("Dispatch", OK)>>,
                                 !.dispatched = 1]
        /\ oks = <<[op |-> "CreateOrder", orderID |-> 1]>>
        /\ written = [id \in IDs |-> <<>>]

\* the state after CreateOrder and an AddItem on the new order
SeedWithItem ==
    LET customerID == CHOOSE c \in CustomerIDs : \A d \in CustomerIDs : c <= d
        product == CHOOSE c \in Catalog : \A d \in Catalog : c.productID <= d.productID
        item == NewItem(2, product.productID, product.price)
    IN  /\ store = (1 :> WithItems(NewOrder(1, customerID, 1), <<item>>, 1))
        /\ events = <<OrderCreated(1, customerID), OrderItemsChanged(1, <<2>>, <<>>)>>
        /\ nextId = 2
        /\ last = [NoCall EXCEPT !.n = 2, !.op = "AddItem", !.orderID = 1, !.ret = 2,
                                 !.calls = <<Called("Find", OK), Called("NextID", OK),
                                             Called("Store", OK), Called("Dispatch", OK)>>,
                                 !.dispatched = 1]
        /\ oks = <<[op |-> "CreateOrder", orderID |-> 1], [op |-> "AddItem", orderID |-> 1]>>
        /\ written = [id \in IDs |-> IF id = 1 THEN <<2>> ELSE <<>>]

\* the callers start on a store that sequential calls have set up
ConcInit ==
    /\ SeedCreated \/ SeedWithItem
    /\ now = 1
    /\ erased = [id \in IDs |-> {}]
    /\ procs = [p \in Procs |-> Idle]

ConcNext ==
    \/ \E p \in Procs, c \in ConcCalls : Begin(p, c)
    \/ \E p \in Procs : FindStep(p)
    \/ \E p \in Procs : CheckStep(p)
    \/ \E p \in Procs : ScanStep(p)
    \/ \E p \in Procs : NextIDStep(p)
    \/ \E p \in Procs : ReadStep(p)
    \/ \E p \in Procs : WriteStep(p)
    \/ \E p \in Procs : StoreStep(p)
    \/ \E p \in Procs : DeleteStep(p)
    \/ \E p \in Procs : DispatchStep(p)
    \/ Tick

ConcSpec == ConcInit /\ [][ConcNext]_vars

---------------------------------------------------------------------------
(* Claims *)

\* C1 (as stated): once an order's stored status is Cancelled no service call
\* changes that status, and every SetStatus on the order, for any target status,
\* fails with InvalidOrderStatus, leaves the store unchanged and dispatches nothing.
C1_AsStated ==
    \A id \in DOMAIN store :
        store[id].Status = Cancelled =>
            /\ \A c \in AllCalls : Run(c).store[id].Status = Cancelled
            /\ \A s \in Statuses, f \in SetStatusFails :
                  LET out == SetStatusRun(id, s, f)
                  IN  /\ out.err = ErrInvalidOrderStatus
                      /\ out.store = store
                      /\ out.events = events

\* C1 (amended): once an order's stored status is Cancelled no service call
\* changes that status, and every SetStatus on the order, for any target status,
\* fails, leaves the store unchanged and dispatches nothing; the error is
\* InvalidOrderStatus while the order is not soft-deleted and OrderNotFound once
\* it is.
C1_CancelledIsTerminal ==
    \A id \in DOMAIN store :
        store[id].Status = Cancelled =>
            /\ \A c \in AllCalls : Run(c).store[id].Status = Cancelled
            /\ \A s \in Statuses, f \in SetStatusFails :
                  LET out == SetStatusRun(id, s, f)
                  IN  /\ out.err = IF store[id].DeletedAt = NoTime
                                   THEN ErrInvalidOrderStatus
                                   ELSE ErrOrderNotFound
                      /\ out.store = store
                      /\ out.events = events

\* a SetStatus call was just rejected on a live Cancelled order
C1_Witness ==
    /\ last.op = "SetStatus"
    /\ last.err = ErrInvalidOrderStatus
    /\ last.orderID \in DOMAIN store
    /\ store[last.orderID].Status = Cancelled
    /\ store[last.orderID].DeletedAt = NoTime

\* C2: once an order is soft-deleted (DeleteOrder's Delete has succeeded), every
\* DeleteOrder, SetStatus, AddItem and DeleteItem on its id fails with
\* OrderNotFound, changes nothing in the store, allocates no id and dispatches
\* nothing, and no call on any other order changes the deleted record.
C2_DeletedIsGone ==
    \A id \in DOMAIN store :
        store[id].DeletedAt # NoTime =>
            /\ ~Found(store, id)
            /\ \A c \in CallsOn(id) :
                  LET out == Run(c)
                  IN  /\ out.err = ErrOrderNotFound
                      /\ out.store = store
                      /\ out.events = events
                      /\ out.nextId = nextId
            /\ \A c \in AllCalls : Run(c).store[id] = store[id]

\* a call on an order that an earlier successful DeleteOrder removed was just
\* answered OrderNotFound
C2_Witness ==
    /\ last.op \in {"DeleteOrder", "SetStatus", "AddItem", "DeleteItem"}
    /\ last.err = ErrOrderNotFound
    /\ last.orderID \in DOMAIN store
    /\ store[last.orderID].DeletedAt # NoTime
    /\ \E i \in 1 .. Len(oks) : oks[i] = [op |-> "DeleteOrder", orderID |-> last.orderID]

\* C3: in every service call the Dispatch call comes directly after the call's
\* repository write (Delete in DeleteOrder, Store elsewhere) and only when that
\* write returned no error; a failing NextID, Find, Store or Delete is the last
\* collaborator call made, its error is the result of the operation, and the
\* dispatched events are unchanged.
C3_DispatchAfterWrite ==
    LET calls == last.calls
        write == IF last.op = "DeleteOrder" THEN "Delete" ELSE "Store"
    IN  /\ \A i \in 1 .. Len(calls) :
              /\ calls[i].call = "Dispatch" =>
                    /\ i > 1
                    /\ calls[i - 1] = Called(write, OK)
              /\ (calls[i].err # OK /\ calls[i].call # "Dispatch") =>
                    /\ i = Len(calls)
                    /\ last.err = calls[i].err
                    /\ last.dispatched = 0
        /\ last.dispatched # 0 => Did(last, "Dispatch") /\ Did(last, write)

\* a CreateOrder whose Store failed has just returned: an id was allocated,
\* nothing is stored and nothing was dispatched
C3_Witness ==
    /\ last.op = "CreateOrder"
    /\ last.err = ErrRepository
    /\ last.calls = <<Called("NextID", OK), Called("Store", ErrRepository)>>
    /\ nextId = 1
    /\ store = <<>>
    /\ events = <<>>

\* C4: AddItem and DeleteItem on an existing (found) order whose status is not
\* Open fail with InvalidOrderStatus, leave the store unchanged, allocate no item
\* id (NextID is not called) and dispatch nothing.
C4_ItemsNeedOpen ==
    \A id \in DOMAIN store :
        (Found(store, id) /\ store[id].Status # Open) =>
            \A c \in CallsOn(id) :
                c.op \in {"AddItem", "DeleteItem"} =>
                    LET out == Run(c)
                    IN  /\ out.err = ErrInvalidOrderStatus
                        /\ out.store = store
                        /\ out.events = events
                        /\ out.nextId = nextId
                        /\ ~Reached(out, "NextID")

\* an AddItem or DeleteItem was just rejected on a live order that holds an item
\* and is no longer Open
C4_Witness ==
    /\ last.op \in {"AddItem", "DeleteItem"}
    /\ last.err = ErrInvalidOrderStatus
    /\ Found(store, last.orderID)
    /\ store[last.orderID].Status = Paid
    /\ Len(store[last.orderID].Items) = 1

\* C5: every service call that returns success has dispatched exactly one event,
\* of the kind of its operation and with its order id, and a call that returns an
\* error has dispatched none; so the dispatched events match, one for one and in
\* order, the calls that returned success.
C5_OneEventPerSuccess ==
    /\ last.dispatched = IF last.n > 0 /\ last.err = OK THEN 1 ELSE 0
    /\ Len(events) = Len(oks)
    /\ \A i \in 1 .. Len(oks) :
          /\ events[i].Type = EventOf(oks[i].op)
          /\ events[i].OrderID = oks[i].orderID

\* three calls have succeeded and one has failed, and the last one succeeded
C5_Witness ==
    /\ Len(oks) = 3
    /\ last.n = 4
    /\ last.err = OK
    /\ \E i \in 1 .. 3 : oks[i].op = "DeleteOrder"
    /\ \E i \in 1 .. 3 : oks[i].op = "SetStatus"

\* C6: CreateOrder(customerID), when NextID, Store and Dispatch succeed, returns
\* a non-nil id that was not in use; the repository then finds under it an order
\* with that id and customerID, status Open, no items, createdAt equal to
\* updatedAt and deletedAt unset; and exactly one event is dispatched,
\* OrderCreated with the same orderID and customerID.
C6_CreateOrder ==
    \A c \in CustomerIDs :
        LET out == CreateOrderRun(c, "-")
        IN  /\ out.err = OK
            /\ out.ret # Nil
            /\ out.ret \notin DOMAIN store
            /\ Found(out.store, out.ret)
            /\ out.store[out.ret].ID = out.ret
            /\ out.store[out.ret].CustomerID = c
            /\ out.store[out.ret].Status = Open
            /\ out.store[out.ret].Items = <<>>
            /\ out.store[out.ret].CreatedAt = out.store[out.ret].UpdatedAt
            /\ out.store[out.ret].DeletedAt = NoTime
            /\ out.events = Append(events, OrderCreated(out.ret, c))

\* a second order was just created, for another customer than the first
C6_Witness ==
    /\ last.op = "CreateOrder"
    /\ last.err = OK
    /\ last.dispatched = 1
    /\ last.ret \in DOMAIN store
    /\ \E id \in DOMAIN store : store[id].CustomerID # store[last.ret].CustomerID
    /\ events[Len(events)] = OrderCreated(last.ret, store[last.ret].CustomerID)

\* C7: AddItem(orderID, productID, price) on a found Open order with N items,
\* when NextID, Store and Dispatch succeed, returns a non-nil item id that no
\* item of the order has, leaves the stored order with the previous N items in
\* the same order followed by the item {id, productID, price}, and dispatches
\* exactly one event, OrderItemsChanged with addedItems = [itemID] and no
\* removedItems.
C7_AddItem ==
    \A id \in DOMAIN store :
        (Found(store, id) /\ store[id].Status = Open) =>
            \A c \in Catalog :
                LET out   == AddItemRun(id, c.productID, c.price, "-")
                    items == store[id].Items
                IN  /\ out.err = OK
                    /\ out.ret # Nil
                    /\ \A i \in 1 .. Len(items) : items[i].ID # out.ret
                    /\ out.store[id].Items =
                          items \o <<[ID |-> out.ret, ProductID |-> c.productID,
                                      Price |-> c.price]>>
                    /\ out.events =
                          Append(events, OrderItemsChanged(id, <<out.ret>>, <<>>))

\* a second item, of another product, was just added to an order
C7_Witness ==
    /\ last.op = "AddItem"
    /\ last.err = OK
    /\ Found(store, last.orderID)
    /\ Len(store[last.orderID].Items) = 2
    /\ store[last.orderID].Items[2].ID = last.ret
    /\ store[last.orderID].Items[1].ProductID # store[last.orderID].Items[2].ProductID
    /\ events[Len(events)] = OrderItemsChanged(last.orderID, <<last.ret>>, <<>>)

C9_ItemNotFound ==
    \A id \in DOMAIN store :
        (Found(store, id) /\ store[id].Status = Open) =>
            \A it \in ArgIDs, f \in DeleteItemFails :
                (\A k \in 1 .. Len(store[id].Items) : store[id].Items[k].ID # it) =>
                    LET out == DeleteItemRun(id, it, f)
                    IN  /\ out.err = ErrItemNotFound
                        /\ out.store = store
                        /\ out.events = events
                        /\ ~Reached(out, "Store")
                        /\ ~Reached(out, "Dispatch")

\* a DeleteItem for an id the order does not hold was just rejected on an Open
\* order that holds an item
C9_Witness ==
    /\ last.op = "DeleteItem"
    /\ last.err = ErrItemNotFound
    /\ last.calls = <<Called("Find", OK)>>
    /\ last.dispatched = 0
    /\ Found(store, last.orderID)
    /\ Len(store[last.orderID].Items) = 1

\* C10: SetStatus(orderID, newStatus) on a found order whose status is not
\* Cancelled is never rejected by the service, whatever the target status (the
\* current one and Open included): it returns an error only when Store or
\* Dispatch does, and when they succeed the stored status is newStatus and
\* exactly one event is dispatched, OrderStatusChanged{orderID, newStatus}.
C10_SetStatus ==
    \A id \in DOMAIN store :
        (Found(store, id) /\ store[id].Status # Cancelled) =>
            \A s \in Statuses :
                /\ \A f \in SetStatusFails :
                      SetStatusRun(id, s, f).err =
                          CASE f = "Store"    -> ErrRepository
                            [] f = "Dispatch" -> ErrDispatch
                            [] OTHER          -> OK
                /\ LET out == SetStatusRun(id, s, "-")
                   IN  /\ out.store[id].Status = s
                       /\ out.events = Append(events, OrderStatusChanged(id, s))

\* an order that had been set to Paid was just set back to Open
C10_Witness ==
    /\ last.op = "SetStatus"
    /\ last.err = OK
    /\ Found(store, last.orderID)
    /\ store[last.orderID].Status = Open
    /\ events[Len(events)] = OrderStatusChanged(last.orderID, Open)
    /\ \E i \in 1 .. Len(events) - 1 :
          events[i] = OrderStatusChanged(last.orderID, Paid)

\* C11: DeleteOrder on an existing, not deleted order succeeds, sets DeletedAt of
\* that order to the current time and leaves its other fields and every other
\* order as they were; Find for the id then fails with ErrOrderNotFound, and
\* exactly one event, OrderDeleted{orderID}, is dispatched.
C11_DeleteOrder ==
    \A id \in DOMAIN store :
        Found(store, id) =>
            LET out == DeleteOrderRun(id, "-")
            IN  /\ out.err = OK
                /\ out.store = [store EXCEPT ![id].DeletedAt = now]
                /\ out.store[id].DeletedAt # NoTime
                /\ RepoFind(out.store, id) = ErrOrderNotFound
                /\ out.events = Append(events, OrderDeleted(id))

\* a DeleteOrder has succeeded on an order with an item, after time has passed
C11_Witness ==
    /\ last.op = "DeleteOrder"
    /\ last.err = OK
    /\ last.orderID \in DOMAIN store
    /\ store[last.orderID].DeletedAt > store[last.orderID].UpdatedAt
    /\ Len(store[last.orderID].Items) = 1
    /\ events[Len(events)] = OrderDeleted(last.orderID)

\* C12: a call whose repository write succeeds and whose Dispatch then fails
\* returns the dispatcher's error, delivers no event, and leaves in the repository
\* exactly the state the successful call would have left: the new order, status,
\* item list or DeletedAt is there, nothing is rolled back.
C12_DispatchFailureKeepsWrite ==
    \A c \in AllCalls :
        c.fail = "Dispatch" =>
            LET ok  == Run([c EXCEPT !.fail = "-"])
                out == Run(c)
                id  == c.orderID
            IN  ok.err = OK =>
                    /\ out.err = ErrDispatch
                    /\ out.events = events
                    /\ out.store = ok.store
                    /\ out.nextId = ok.nextId
                    /\ CASE c.op = "CreateOrder" ->
                               /\ out.nextId \notin DOMAIN store
                               /\ Found(out.store, out.nextId)
                         [] c.op = "DeleteOrder" -> out.store[id].DeletedAt = now
                         [] c.op = "SetStatus" -> out.store[id].Status = c.status
                         [] c.op = "AddItem" ->
                               ItemIDs(out.store[id].Items)
                                   = Append(ItemIDs(store[id].Items), out.nextId)
                         [] OTHER ->
                               /\ Len(out.store[id].Items) = Len(store[id].Items) - 1
                               /\ \A i \in 1 .. Len(out.store[id].Items) :
                                      out.store[id].Items[i].ID # c.itemID

\* a SetStatus to Paid has returned the dispatcher's error: the order is Paid and
\* no OrderStatusChanged was delivered
C12_Witness ==
    /\ last.op = "SetStatus"
    /\ last.err = ErrDispatch
    /\ store[last.orderID].Status = Paid
    /\ \A i \in 1 .. Len(events) : events[i].Type # "OrderStatusChanged"

\* C17 (as stated): with a clock that never goes back, UpdatedAt of a stored order
\* is never before its CreatedAt and never decreases; it is CreatedAt when the
\* order is created, a successful SetStatus, AddItem or DeleteItem on the order
\* sets it to the current time, and no other step changes it, so that it always
\* equals the time of the last successful such call (CreatedAt if there was none).
C17_AsStated ==
    [][\A id \in DOMAIN store' :
          /\ store'[id].UpdatedAt >= store'[id].CreatedAt
          /\ IF id \notin DOMAIN store
             THEN store'[id].UpdatedAt = store'[id].CreatedAt
             ELSE /\ store'[id].UpdatedAt >= store[id].UpdatedAt
                  /\ IF /\ last'.n # last.n
                        /\ last'.op \in {"SetStatus", "AddItem", "DeleteItem"}
                        /\ last'.orderID = id
                        /\ last'.err = OK
                     THEN store'[id].UpdatedAt = now
                     ELSE store'[id].UpdatedAt = store[id].UpdatedAt]_vars

\* C17 (amended): with a clock that never goes back, UpdatedAt of a stored order
\* is never before its CreatedAt and never decreases; it is CreatedAt when the
\* order is created, a SetStatus, AddItem or DeleteItem on the order that gets as
\* far as calling Store sets it to the current time, whatever Store and Dispatch
\* then return, and no other step changes it.
C17_UpdatedAtFollowsWrites ==
    [][\A id \in DOMAIN store' :
          /\ store'[id].UpdatedAt >= store'[id].CreatedAt
          /\ IF id \notin DOMAIN store
             THEN store'[id].UpdatedAt = store'[id].CreatedAt
             ELSE /\ store'[id].UpdatedAt >= store[id].UpdatedAt
                  /\ IF /\ last'.n # last.n
                        /\ last'.op \in {"SetStatus", "AddItem", "DeleteItem"}
                        /\ last'.orderID = id
                        /\ Reached(last', "Store")
                     THEN store'[id].UpdatedAt = now
                     ELSE store'[id].UpdatedAt = store[id].UpdatedAt]_vars

\* an AddItem whose Dispatch failed has moved UpdatedAt of its order past CreatedAt
C17_Witness ==
    /\ last.op = "AddItem"
    /\ last.err = ErrDispatch
    /\ store[last.orderID].UpdatedAt = now
    /\ store[last.orderID].UpdatedAt > store[last.orderID].CreatedAt

\* C18: no step removes a stored order or changes its ID, CustomerID or CreatedAt,
\* which a new order gets from CreateOrder (the fresh id, the current time); a
\* SetStatus step leaves the Items of its order as they were, an AddItem or
\* DeleteItem step leaves its Status as it was, and a step of any operation leaves
\* every order other than the one it names unchanged.
C18_Frame ==
    [][/\ \A id \in DOMAIN store :
             /\ id \in DOMAIN store'
             /\ store'[id].ID = store[id].ID
             /\ store'[id].CustomerID = store[id].CustomerID
             /\ store'[id].CreatedAt = store[id].CreatedAt
             /\ (last'.orderID # id) => store'[id] = store[id]
             /\ (last'.op = "SetStatus") => store'[id].Items = store[id].Items
             /\ (last'.op \in {"AddItem", "DeleteItem"}) =>
                    store'[id].Status = store[id].Status
       /\ \A id \in DOMAIN store' \ DOMAIN store :
             /\ last'.op = "CreateOrder"
             /\ id = nextId'
             /\ store'[id].ID = id
             /\ store'[id].CustomerID \in CustomerIDs
             /\ store'[id].CreatedAt = now]_vars

\* an AddItem has succeeded on one of two stored orders, later than its creation
C18_Witness ==
    /\ last.op = "AddItem"
    /\ last.err = OK
    /\ Cardinality(DOMAIN store) = 2
    /\ Len(store[last.orderID].Items) = 1
    /\ store[last.orderID].UpdatedAt > store[last.orderID].CreatedAt

\* C19 (as stated): a SetStatus, AddItem or DeleteItem step whose Store call fails
\* leaves the orders the repository hands out as they were before the call: the
\* status, item and UpdatedAt the handler wrote into the order Find returned are
\* not seen by a later Find.
C19_AsStated ==
    [][(/\ last'.n # last.n
        /\ last'.op \in {"SetStatus", "AddItem", "DeleteItem"}
        /\ \E i \in 1 .. Len(last'.calls) :
              last'.calls[i] = Called("Store", ErrRepository))
       => store' = store]_vars

\* C20: when calls are made one at a time and no repository or dispatcher call
\* fails, the dispatched events determine the stored state: every event names a
\* stored order; the first event of an order is its OrderCreated, with its
\* customer; the order is deleted exactly when its last event is OrderDeleted, and
\* no event of the order follows an OrderDeleted; its Status is the NewStatus of
\* its last OrderStatusChanged (Open if there is none); and the ids of its Items
\* are the AddedItems of its OrderItemsChanged events without the RemovedItems,
\* in the order of addition.
C20_EventsDetermineState ==
    /\ \A i \in 1 .. Len(events) : events[i].OrderID \in DOMAIN store
    /\ \A id \in DOMAIN store :
          LET E == SelectSeq(events, LAMBDA e : e.OrderID = id)
              StatusAfter[i \in 0 .. Len(E)] ==
                  IF i = 0 THEN Open
                  ELSE IF E[i].Type = "OrderStatusChanged" THEN E[i].NewStatus
                  ELSE StatusAfter[i - 1]
              ItemsAfter[i \in 0 .. Len(E)] ==
                  IF i = 0 THEN <<>>
                  ELSE IF E[i].Type = "OrderItemsChanged"
                  THEN SelectSeq(ItemsAfter[i - 1] \o E[i].AddedItems,
                                 LAMBDA x : \A j \in 1 .. Len(E[i].RemovedItems) :
                                               E[i].RemovedItems[j] # x)
                  ELSE ItemsAfter[i - 1]
          IN  /\ Len(E) >= 1
              /\ E[1] = OrderCreated(id, store[id].CustomerID)
              /\ \A i \in 2 .. Len(E) : E[i].Type # "OrderCreated"
              /\ \A i \in 1 .. (Len(E) - 1) : E[i].Type # "OrderDeleted"
              /\ (store[id].DeletedAt # NoTime) <=> (E[Len(E)].Type = "OrderDeleted")
              /\ store[id].Status = StatusAfter[Len(E)]
              /\ ItemIDs(store[id].Items) = ItemsAfter[Len(E)]

\* a deleted order whose events are its creation, an added item, a status change
\* and its deletion
C20_Witness ==
    /\ Len(events) = 4
    /\ \A i \in 1 .. 4 : events[i].OrderID = 1
    /\ events[2].Type = "OrderItemsChanged"
    /\ events[3].Type = "OrderStatusChanged"
    /\ events[4].Type = "OrderDeleted"
    /\ store[1].DeletedAt # NoTime
    /\ Len(store[1].Items) = 1

\* C13: when two callers run DeleteOrder on the same existing order at the same
\* time, however their Find and Delete calls interleave, DeletedAt once set is
\* never set again, at most one OrderDeleted for the order is ever dispatched,
\* and when both have returned exactly one has succeeded, the other has failed
\* with ErrOrderNotFound, and exactly one OrderDeleted for the order was dispatched.
C13_OneDeleteWins ==
    [][\A p \in Procs : \A q \in Procs \ {p} :
          LET id == procs'[p].call.orderID
              deleted == {i \in 1 .. Len(events') : events'[i] = OrderDeleted(id)}
          IN  (/\ procs'[p].call.op = "DeleteOrder"
               /\ procs'[q].call.op = "DeleteOrder"
               /\ procs'[q].call.orderID = id
               /\ id \in DOMAIN store) =>
                  /\ store[id].DeletedAt # NoTime =>
                         store'[id].DeletedAt = store[id].DeletedAt
                  /\ Cardinality(deleted) <= 1
                  /\ (procs'[p].pc = "done" /\ procs'[q].pc = "done") =>
                         /\ {procs'[p].err, procs'[q].err} = {OK, ErrOrderNotFound}
                         /\ Cardinality(deleted) = 1
                         /\ store'[id].DeletedAt # NoTime]_vars

\* both callers found the order; one deleted it, the other failed in Delete, later
C13_Witness ==
    /\ procs["A"].pc = "done" /\ procs["B"].pc = "done"
    /\ procs["A"].call.op = "DeleteOrder" /\ procs["B"].call.op = "DeleteOrder"
    /\ procs["A"].call.orderID = 1 /\ procs["B"].call.orderID = 1
    /\ procs["A"].err = OK
    /\ procs["B"].err = ErrOrderNotFound /\ procs["B"].exit = "Delete"
    /\ store[1].DeletedAt < now

\* C14 (as stated): under every interleaving of two callers, once DeletedAt of a
\* stored order is set no step changes its Status or Items or its DeletedAt, and
\* once its OrderDeleted is dispatched no OrderStatusChanged or OrderItemsChanged
\* for the order is dispatched.
C14_AsStated ==
    [][\A id \in DOMAIN store :
          /\ store[id].DeletedAt # NoTime =>
                 /\ store'[id].Status = store[id].Status
                 /\ store'[id].Items = store[id].Items
                 /\ store'[id].DeletedAt = store[id].DeletedAt
          /\ (\E i \in 1 .. Len(events) : events[i] = OrderDeleted(id)) =>
                 \A i \in (Len(events) + 1) .. Len(events') :
                     \/ events'[i].OrderID # id
                     \/ events'[i].Type \notin {"OrderStatusChanged", "OrderItemsChanged"}]_vars

\* C15 (as stated): under every interleaving of two callers, the Items of a stored
\* order change only in a step taken while its stored Status is Open, and a step
\* that changes the Items of an order leaves its Status as it is.
C15_AsStated ==
    [][\A id \in DOMAIN store :
          store'[id].Items # store[id].Items =>
              /\ store[id].Status = Open
              /\ store'[id].Status = store[id].Status]_vars

\* C16 (as stated): service calls are atomic, so no update is lost: when two
\* callers have run AddItem on the same order at the same time and both have
\* returned success, the stored order holds both items.
C16_AsStated ==
    \A p \in Procs : \A q \in Procs \ {p} :
        (/\ procs[p].pc = "done" /\ procs[q].pc = "done"
         /\ procs[p].call.op = "AddItem" /\ procs[q].call.op = "AddItem"
         /\ procs[p].call.orderID = procs[q].call.orderID
         /\ procs[p].err = OK /\ procs[q].err = OK) =>
            \A r \in {procs[p].ret, procs[q].ret} :
                \E i \in 1 .. Len(store[procs[p].call.orderID].Items) :
                    store[procs[p].call.orderID].Items[i].ID = r

=============================================================================
